---- MODULE Spec2Model ----
(***************************************************************************)
(* Model of the Dragon Ball catalog viewer: the data access service        *)
(* (src/lib/api.js), its static fallback dataset (src/lib/mockData.js),    *)
(* the search form (src/lib/SearchForm.svelte), the list screen controller *)
(* (src/routes/+page.svelte) and the detail screen controller              *)
(* (src/unnamed/part_000).  One behaviour is the life of one screen: a     *)
(* screen's view state is created when it is mounted and no other screen   *)
(* reads it.                                                               *)
(*                                                                         *)
(* JavaScript strings that the code inspects (names, races, identifiers,   *)
(* thrown messages) are sequences of one-character strings, so that        *)
(* toLowerCase, includes and parseInt are computed and not assumed.        *)
(* Strings that are only displayed (the screen's error text) are TLA+      *)
(* strings.  A character record keeps the fields the orchestration layer   *)
(* reads: id, name, race.                                                  *)
(***************************************************************************)
EXTENDS Integers, Sequences, FiniteSets, TLC

VARIABLES
    \* ---- list screen, src/routes/+page.svelte ----
    characters,     \* display list
    loading,        \* loading flag
    error,          \* error message, "" = none
    currentPage,
    totalPages,
    hasMore,        \* more-available flag
    mounted,        \* onMount has run
    inflight,       \* service calls of the list screen not yet settled
    fetchCount,     \* number of service calls the list screen has started
    lastSettled,    \* the call of the list screen that settled last
    lastEvent,      \* the entry point or continuation that ran last
    \* ---- detail screen, src/unnamed/part_000 ----
    dCharacter,     \* the record shown, NoCharacter = null
    dLoading,       \* loading flag
    dError,         \* error message, "" = none
    dMounted,       \* onMount has run
    dPending,       \* identifiers whose service call has not settled
    dDone,          \* "no", or the block the last settled call ran
    \* ---- one call of the data access service, src/lib/api.js ----
    svcCall,        \* operation and arguments
    svcNet,         \* what the network did
    svcRet,         \* what the call returned or threw
    svcReqs         \* the HTTP requests the call issued

viewVars == <<characters, loading, error, currentPage, totalPages, hasMore>>
listVars == <<characters, loading, error, currentPage, totalPages, hasMore,
              mounted, inflight, fetchCount, lastSettled, lastEvent>>
detailVars == <<dCharacter, dLoading, dError, dMounted, dPending, dDone>>
svcVars == <<svcCall, svcNet, svcRet, svcReqs>>
vars == <<characters, loading, error, currentPage, totalPages, hasMore,
          mounted, inflight, fetchCount, lastSettled, lastEvent,
          dCharacter, dLoading, dError, dMounted, dPending, dDone,
          svcCall, svcNet, svcRet, svcReqs>>

(***************************************************************************)
(* Bounds                                                                  *)
(***************************************************************************)
MaxPage == 3        \* pages requested from the service: 1..MaxPage
MaxLimit == 12      \* page sizes requested from the service: 1..MaxLimit
MaxIdLen == 3       \* longest identifier string
RemoteSize == 14    \* records in the remote collection
MaxFetches == 3     \* service calls one run of the list screen starts
MaxFairFetches == 2 \* the same, for the runs checked with fairness

(***************************************************************************)
(* Strings                                                                 *)
(***************************************************************************)
LowerMap ==
    [c \in {"A","B","C","D","E","F","G","H","I","J","K","L","M",
            "N","O","P","Q","R","S","T","U","V","W","X","Y","Z"} |->
        CASE c = "A" -> "a" [] c = "B" -> "b" [] c = "C" -> "c"
          [] c = "D" -> "d" [] c = "E" -> "e" [] c = "F" -> "f"
          [] c = "G" -> "g" [] c = "H" -> "h" [] c = "I" -> "i"
          [] c = "J" -> "j" [] c = "K" -> "k" [] c = "L" -> "l"
          [] c = "M" -> "m" [] c = "N" -> "n" [] c = "O" -> "o"
          [] c = "P" -> "p" [] c = "Q" -> "q" [] c = "R" -> "r"
          [] c = "S" -> "s" [] c = "T" -> "t" [] c = "U" -> "u"
          [] c = "V" -> "v" [] c = "W" -> "w" [] c = "X" -> "x"
          [] c = "Y" -> "y" [] c = "Z" -> "z"]

\* String.prototype.toLowerCase
toLowerCase(s) ==
    [i \in 1..Len(s) |-> IF s[i] \in DOMAIN LowerMap THEN LowerMap[s[i]] ELSE s[i]]

\* String.prototype.includes: t occurs in s at some offset
includes(s, t) ==
    \E i \in 0..(Len(s) - Len(t)) : SubSeq(s, i + 1, i + Len(t)) = t

\* Array.prototype.slice(start, end) for 0 <= start <= end
slice(arr, start, end) ==
    IF start >= Len(arr) THEN <<>>
    ELSE SubSeq(arr, start + 1, IF end < Len(arr) THEN end ELSE Len(arr))

\* Math.ceil(a / b) for a >= 0, b >= 1
ceilDiv(a, b) == IF a % b = 0 THEN a \div b ELSE (a \div b) + 1

(***************************************************************************)
(* Static fallback dataset, src/lib/mockData.js                            *)
(***************************************************************************)
Saiyan == <<"S","a","i","y","a","n">>
Human == <<"H","u","m","a","n">>

mockCharacters == <<
    [id |-> 1, name |-> <<"G","o","k","u">>, race |-> Saiyan],
    [id |-> 2, name |-> <<"V","e","g","e","t","a">>, race |-> Saiyan],
    [id |-> 3, name |-> <<"P","i","c","c","o","l","o">>,
     race |-> <<"N","a","m","e","k","i","a","n">>],
    [id |-> 4, name |-> <<"G","o","h","a","n">>,
     race |-> <<"H","a","l","f","-","S","a","i","y","a","n">>],
    [id |-> 5, name |-> <<"F","r","i","e","z","a">>,
     race |-> <<"F","r","i","e","z","a"," ","R","a","c","e">>],
    [id |-> 6, name |-> <<"C","e","l","l">>,
     race |-> <<"A","n","d","r","o","i","d">>] >>

(***************************************************************************)
(* The remote collection behind GET /characters: the records of the static *)
(* dataset followed by further records, RemoteSize in all.                 *)
(***************************************************************************)
ExtraCharacters == <<
    [name |-> <<"B","u","l","m","a">>, race |-> Human],
    [name |-> <<"G","o","g","e","t","a">>, race |-> Saiyan],
    [name |-> <<"K","r","i","l","l","i","n">>, race |-> Human] >>

remoteCharacters ==
    [i \in 1..RemoteSize |->
        IF i <= Len(mockCharacters) THEN mockCharacters[i]
        ELSE [id |-> i,
              name |-> ExtraCharacters[((i - 1) % Len(ExtraCharacters)) + 1].name,
              race |-> ExtraCharacters[((i - 1) % Len(ExtraCharacters)) + 1].race]]

(***************************************************************************)
(* JSON values a response body parses to                                   *)
(***************************************************************************)
NoMeta ==
    [present |-> FALSE, totalItems |-> 0, itemCount |-> 0, itemsPerPage |-> 0,
     totalPages |-> 0, currentPage |-> 0]

Meta(totalItems, itemCount, itemsPerPage, totalPagesV, currentPageV) ==
    [present |-> TRUE, totalItems |-> totalItems, itemCount |-> itemCount,
     itemsPerPage |-> itemsPerPage, totalPages |-> totalPagesV,
     currentPage |-> currentPageV]

\* { items: [...], meta: {...} }; meta = NoMeta when the object has no meta
Object(items, meta) == [kind |-> "object", items |-> items, meta |-> meta]
\* a bare array [...]
ArrayBody(items) == [kind |-> "array", items |-> items, meta |-> NoMeta]
\* null
NullBody == [kind |-> "null", items |-> <<>>, meta |-> NoMeta]

\* the envelope the remote API answers GET /characters?page=&limit= with
RemoteEnvelope(page, limit) ==
    LET items == slice(remoteCharacters, (page - 1) * limit, (page - 1) * limit + limit)
    IN  Object(items, Meta(RemoteSize, Len(items), limit,
                           ceilDiv(RemoteSize, limit), page))

(***************************************************************************)
(* Outcomes of one fetch: fetch() rejects, response.ok is false,           *)
(* response.json() rejects, or the body parses to a JSON value.            *)
(***************************************************************************)
Net(kind, status, body) == [kind |-> kind, status |-> status, body |-> body]

FailedOutcomes ==
    { Net("transport", 0, NullBody), Net("status", 404, NullBody),
      Net("status", 500, NullBody), Net("parse", 200, NullBody) }

\* bodies of a 2xx answer to GET /characters?page=&limit=
ListBodies(page, limit) ==
    { RemoteEnvelope(page, limit),
      ArrayBody(RemoteEnvelope(page, limit).items),
      NullBody }

ListOutcomes(page, limit) ==
    FailedOutcomes \cup { Net("ok", 200, b) : b \in ListBodies(page, limit) }

(***************************************************************************)
(* Results of a service call                                               *)
(***************************************************************************)
Return(v) == [threw |-> FALSE, value |-> v, message |-> <<>>]
Throw(m) == [threw |-> TRUE, value |-> NullBody, message |-> m]

MsgNotFound ==
    <<"C","h","a","r","a","c","t","e","r"," ","n","o","t"," ","f","o","u","n","d">>
\* text of the TypeError raised by reading a property of null (V8, SpiderMonkey)
MsgNullReadV8 ==
    <<"C","a","n","n","o","t"," ","r","e","a","d"," ","p","r","o","p","e","r",
      "t","i","e","s"," ","o","f"," ","n","u","l","l">>
MsgNullReadSM == <<"d","a","t","a"," ","i","s"," ","n","u","l","l">>
NullReadMessages == { MsgNullReadV8, MsgNullReadSM }

\* data.items || data : the array the callers read out of a parsed body (an
\* array is truthy even when empty); reading .items of null raises a
\* TypeError whose text depends on the engine
ItemsOrData(data, typeErrorMsg) ==
    IF data.kind = "null" THEN Throw(typeErrorMsg) ELSE Return(data.items)

(***************************************************************************)
(* DragonBallAPI.getAllCharacters                                          *)
(***************************************************************************)
\* variant: the page count is rounded down
getAllCharactersFallback_floorPages(page, limit) ==
    LET startIndex == (page - 1) * limit
        endIndex == startIndex + limit
        paginatedMockData == slice(mockCharacters, startIndex, endIndex)
    IN  Object(paginatedMockData,
               Meta(Len(mockCharacters), Len(paginatedMockData), limit,
                    Len(mockCharacters) \div limit, page))

\* variant: the window starts one page too far
getAllCharactersFallback_startAtPage(page, limit) ==
    LET startIndex == page * limit
        endIndex == startIndex + limit
        paginatedMockData == slice(mockCharacters, startIndex, endIndex)
    IN  Object(paginatedMockData,
               Meta(Len(mockCharacters), Len(paginatedMockData), limit,
                    ceilDiv(Len(mockCharacters), limit), page))

getAllCharactersFallback(page, limit) ==
    LET startIndex == (page - 1) * limit
        endIndex == startIndex + limit
        paginatedMockData == slice(mockCharacters, startIndex, endIndex)
    IN  Object(paginatedMockData,
               Meta(Len(mockCharacters), Len(paginatedMockData), limit,
                    ceilDiv(Len(mockCharacters), limit), page))

getAllCharacters(page, limit, net) ==
    IF net.kind = "ok" THEN Return(net.body)
    ELSE Return(getAllCharactersFallback(page, limit))

\* the fetches one call issues
getAllCharactersFetches(page, limit) ==
    << [path |-> "/characters", page |-> page, limit |-> limit] >>

(***************************************************************************)
(* Identifiers: a number or a string                                       *)
(***************************************************************************)
NumId(n) == [t |-> "num", n |-> n, s |-> <<>>]
StrId(s) == [t |-> "str", n |-> 0, s |-> s]

Digits == {"0","1","2","3","4","5","6","7","8","9"}
DigitVal(c) ==
    CASE c = "0" -> 0 [] c = "1" -> 1 [] c = "2" -> 2 [] c = "3" -> 3
      [] c = "4" -> 4 [] c = "5" -> 5 [] c = "6" -> 6 [] c = "7" -> 7
      [] c = "8" -> 8 [] c = "9" -> 9

NaN == [nan |-> TRUE, v |-> 0]
Num(v) == [nan |-> FALSE, v |-> v]

RECURSIVE SkipWhiteSpace(_)
SkipWhiteSpace(s) ==
    IF s # <<>> /\ Head(s) = " " THEN SkipWhiteSpace(Tail(s)) ELSE s

RECURSIVE DigitPrefixValue(_, _, _)
\* value of the longest prefix of decimal digits of s; seen = a digit was read
DigitPrefixValue(s, acc, seen) ==
    IF s # <<>> /\ Head(s) \in Digits
    THEN DigitPrefixValue(Tail(s), acc * 10 + DigitVal(Head(s)), TRUE)
    ELSE IF seen THEN Num(acc) ELSE NaN

\* parseInt(id), radix 10: leading white space is skipped, a sign is read,
\* then the longest run of digits; whatever follows is ignored; no digit
\* gives NaN.  A number is converted to its decimal text first.
parseInt(id) ==
    IF id.t = "num" THEN Num(id.n)
    ELSE LET s == SkipWhiteSpace(id.s)
         IN  IF s # <<>> /\ Head(s) = "-"
             THEN LET r == DigitPrefixValue(Tail(s), 0, FALSE)
                  IN  IF r.nan THEN NaN ELSE Num(0 - r.v)
             ELSE DigitPrefixValue(s, 0, FALSE)

\* Array.prototype.find over the static dataset: the index of the first
\* record whose id === wanted, 0 when there is none (NaN equals nothing)
findById(wanted) ==
    LET hits == { i \in 1..Len(mockCharacters) :
                    ~wanted.nan /\ mockCharacters[i].id = wanted.v }
    IN  IF hits = {} THEN 0
        ELSE CHOOSE i \in hits : \A j \in hits : i <= j

(***************************************************************************)
(* DragonBallAPI.getCharacterById                                          *)
(***************************************************************************)
\* variant: the identifier is compared as given, without parseInt, so that
\* a string equals no numeric id
getCharacterByIdFallback_noParseInt(id) ==
    LET at == findById(IF id.t = "num" THEN Num(id.n) ELSE NaN)
    IN  IF at # 0 THEN Return(mockCharacters[at]) ELSE Throw(MsgNotFound)

getCharacterByIdFallback(id) ==
    LET at == findById(parseInt(id))
    IN  IF at # 0 THEN Return(mockCharacters[at]) ELSE Throw(MsgNotFound)

getCharacterById(id, net) ==
    IF net.kind = "ok" THEN Return(net.body)
    ELSE getCharacterByIdFallback(id)

getCharacterByIdFetches(id) ==
    << [path |-> "/characters/id", page |-> 0, limit |-> 0] >>

(***************************************************************************)
(* DragonBallAPI.searchCharacters                                          *)
(***************************************************************************)
\* the two optional filters, applied when the term is a non-empty string
\* variant: the search terms are not lower-cased
filterCharacters_caseSensitive(items, name, race) ==
    LET NameOk(character) == includes(toLowerCase(character.name), name)
        RaceOk(character) == includes(toLowerCase(character.race), race)
        byName == IF name # <<>> THEN SelectSeq(items, NameOk) ELSE items
    IN  IF race # <<>> THEN SelectSeq(byName, RaceOk) ELSE byName

filterCharacters(items, name, race) ==
    LET NameOk(character) ==
            includes(toLowerCase(character.name), toLowerCase(name))
        RaceOk(character) ==
            includes(toLowerCase(character.race), toLowerCase(race))
        byName == IF name # <<>> THEN SelectSeq(items, NameOk) ELSE items
    IN  IF race # <<>> THEN SelectSeq(byName, RaceOk) ELSE byName

searchCharactersFallback(name, race, page, limit) ==
    LET filteredItems == filterCharacters(mockCharacters, name, race)
    IN  Object(filteredItems,
               Meta(Len(filteredItems), Len(filteredItems), limit, 1, page))

\* variant: the filters run over the whole remote collection
searchCharacters_wholeCollection(name, race, page, limit, net) ==
    IF net.kind = "ok" /\ net.body.kind # "null"
    THEN Return(Object(filterCharacters(remoteCharacters, name, race), net.body.meta))
    ELSE Return(searchCharactersFallback(name, race, page, limit))

\* { ...data, items: filteredItems }: the body's meta is kept as it came; the
\* index keys a spread array contributes are not represented
searchCharacters(name, race, page, limit, net) ==
    IF net.kind = "ok" /\ net.body.kind # "null"
    THEN Return(Object(filterCharacters(net.body.items, name, race), net.body.meta))
    ELSE Return(searchCharactersFallback(name, race, page, limit))

searchCharactersFetches(name, race, page, limit) ==
    << [path |-> "/characters", page |-> page, limit |-> limit] >>

(***************************************************************************)
(* Initial state                                                           *)
(***************************************************************************)
(***************************************************************************)
(* handleApiError, src/lib/api.js                                          *)
(***************************************************************************)
FailedToFetch == <<"F","a","i","l","e","d"," ","t","o"," ","f","e","t","c","h">>

\* variant: the status checks come before the connectivity check
handleApiError_statusFirst(message) ==
    IF includes(message, <<"4","0","4">>)
    THEN "Character not found."
    ELSE IF includes(message, <<"5","0","0">>)
    THEN "Server error. Please try again later."
    ELSE IF includes(message, FailedToFetch)
    THEN "Network error. Please check your internet connection."
    ELSE "An unexpected error occurred. Please try again."

handleApiError(message) ==
    IF includes(message, FailedToFetch)
    THEN "Network error. Please check your internet connection."
    ELSE IF includes(message, <<"4","0","4">>)
    THEN "Character not found."
    ELSE IF includes(message, <<"5","0","0">>)
    THEN "Server error. Please try again later."
    ELSE "An unexpected error occurred. Please try again."

\* text of the Error thrown for a response that is not ok, api.js:49
HttpError(status) ==
    <<"H","T","T","P"," ","e","r","r","o","r","!"," ","s","t","a","t","u","s",":"," ">> \o status

\* message texts of the errors handed to handleApiError
ErrorMessages ==
    { FailedToFetch,
      HttpError(<<"4","0","4">>), HttpError(<<"5","0","0">>),
      HttpError(<<"5","0","3">>),
      MsgNotFound, MsgNullReadV8, MsgNullReadSM,
      FailedToFetch \o <<" ">> \o HttpError(<<"4","0","4">>),
      HttpError(<<"4","0","4">>) \o <<" ">> \o FailedToFetch,
      HttpError(<<"5","0","0">>) \o <<" ">> \o FailedToFetch,
      <<"4","0","4","5","0","0">>, <<"5","0","0","4","0","4">>,
      <<"f","a","i","l","e","d"," ","t","o"," ","f","e","t","c","h">>,
      <<"4","0"," ","4">>, <<>> }

NoCall ==
    [op |-> "none", page |-> 0, limit |-> 0, name |-> <<>>, race |-> <<>>,
     id |-> NumId(0), message |-> <<>>]

\* a call of the list screen: the operation and its arguments.  Once the
\* call has settled: done is "try" when the try block ran to its end and
\* "catch" when the catch block ran, served is what the network answered,
\* pending are the calls still outstanding at that moment, and same tells
\* that the call settled just before was the same operation with the same
\* arguments, got the same answer and ran its try block to the end; paging
\* is "envelope" (or "failed") when every call so far was the initial load
\* or a load started by loadMore, no search was started, and each call was
\* answered by the remote API with an envelope (or failed at the network and
\* was answered from the static dataset), and "mixed" otherwise.
Request(rid, op, page, reset, name, race) ==
    [rid |-> rid, op |-> op, page |-> page, reset |-> reset, name |-> name,
     race |-> race, done |-> "no", served |-> "no", pending |-> {},
     same |-> FALSE, paging |-> "no"]
NoRequest == Request(0, "none", 0, FALSE, <<>>, <<>>)

ListInit ==
    /\ characters = <<>>
    /\ loading = FALSE
    /\ error = ""
    /\ currentPage = 1
    /\ totalPages = 1
    /\ hasMore = TRUE
    /\ mounted = FALSE
    /\ inflight = {}
    /\ fetchCount = 0
    /\ lastSettled = NoRequest
    /\ lastEvent = "none"

\* character = null
NoCharacter == [id |-> 0, name |-> <<>>, race |-> <<>>]

DetailInit ==
    /\ dCharacter = NoCharacter
    /\ dLoading = TRUE
    /\ dError = ""
    /\ dMounted = FALSE
    /\ dPending = {}
    /\ dDone = "no"

SvcInit ==
    /\ svcCall = NoCall
    /\ svcNet = Net("none", 0, NullBody)
    /\ svcRet = Return(NullBody)
    /\ svcReqs = <<>>

Init == ListInit /\ DetailInit /\ SvcInit

(***************************************************************************)
(* The data access service called on its own: arguments and network        *)
(* outcome are drawn from bounded sets, the call is applied.  The service  *)
(* holds no state, so one call per behaviour covers it.                    *)
(***************************************************************************)
Pages == 1..MaxPage
Limits == 1..MaxLimit

NameTerms ==
    { <<>>, <<"g","o","k","u">>, <<"G","O">>, <<"v","e","g","e","t","a">>,
      <<"z">> }
RaceTerms ==
    { <<>>, <<"s","a","i","y","a","n">>, <<"R","A","C","E">>, <<"h","u","m">> }

IdAlphabet == {"0", "1", "2", "9", "a", " ", "-"}
IdStrings ==
    UNION { [1..n -> IdAlphabet] : n \in 0..MaxIdLen }
Ids == { StrId(s) : s \in IdStrings } \cup { NumId(n) : n \in {0, 1, 6, 7, 999} }

\* bodies of a 2xx answer to GET /characters/{id}: the remote's record
CharacterBodies(id) ==
    { remoteCharacters[i] : i \in { j \in 1..RemoteSize :
          ~parseInt(id).nan /\ remoteCharacters[j].id = parseInt(id).v } }

CharacterOutcomes(id) ==
    FailedOutcomes \cup { Net("ok", 200, b) : b \in CharacterBodies(id) }

CallGetAllCharacters ==
    /\ svcCall.op = "none"
    /\ \E page \in Pages, limit \in Limits :
      \E net \in ListOutcomes(page, limit) :
        /\ svcCall' = [NoCall EXCEPT !.op = "getAllCharacters",
                                     !.page = page, !.limit = limit]
        /\ svcNet' = net
        /\ svcRet' = getAllCharacters(page, limit, net)
        /\ svcReqs' = getAllCharactersFetches(page, limit)
        /\ UNCHANGED <<listVars, detailVars>>

CallGetCharacterById ==
    /\ svcCall.op = "none"
    /\ \E id \in Ids :
      \E net \in CharacterOutcomes(id) :
        /\ svcCall' = [NoCall EXCEPT !.op = "getCharacterById", !.id = id]
        /\ svcNet' = net
        /\ svcRet' = getCharacterById(id, net)
        /\ svcReqs' = getCharacterByIdFetches(id)
        /\ UNCHANGED <<listVars, detailVars>>

CallSearchCharacters ==
    /\ svcCall.op = "none"
    /\ \E name \in NameTerms, race \in RaceTerms, page \in Pages, limit \in Limits :
      \E net \in ListOutcomes(page, limit) :
        /\ svcCall' = [NoCall EXCEPT !.op = "searchCharacters",
                                     !.name = name, !.race = race,
                                     !.page = page, !.limit = limit]
        /\ svcNet' = net
        /\ svcRet' = searchCharacters(name, race, page, limit, net)
        /\ svcReqs' = searchCharactersFetches(name, race, page, limit)
        /\ UNCHANGED <<listVars, detailVars>>

CallHandleApiError ==
    /\ svcCall.op = "none"
    /\ \E message \in ErrorMessages :
        /\ svcCall' = [NoCall EXCEPT !.op = "handleApiError",
                                     !.message = message]
        /\ svcRet' = Return(handleApiError(message))
        /\ UNCHANGED <<svcNet, svcReqs, listVars, detailVars>>

SvcNext ==
    \/ CallGetAllCharacters
    \/ CallGetCharacterById
    \/ CallSearchCharacters
    \/ CallHandleApiError

SvcSpec == Init /\ [][SvcNext]_vars

(***************************************************************************)
(* SearchForm.handleSearch, src/lib/SearchForm.svelte                      *)
(***************************************************************************)
All == <<"A","l","l">>
\* what the user typed and selected
SearchTerms == { <<>>, <<"G","O">> }
SelectedRaces == { <<>>, All, Saiyan }

handleSearchRace(selectedRace) == IF selectedRace = All THEN <<>> ELSE selectedRace

(***************************************************************************)
(* List screen, src/routes/+page.svelte                                    *)
(***************************************************************************)
ListPageSize == 12
SearchPageSize == 50

\* loadCharacters(page, reset) up to its await: the flags are set and the
\* service call is started
StartLoad(page, reset) ==
    /\ fetchCount < MaxFetches
    /\ loading' = TRUE
    /\ error' = ""
    /\ fetchCount' = fetchCount + 1
    /\ inflight' = inflight \cup
            { Request(fetchCount + 1, "load", page, reset, <<>>, <<>>) }
    /\ UNCHANGED <<characters, currentPage, totalPages, hasMore, lastSettled>>

\* searchCharacters(name, race) up to its await
StartSearch(name, race) ==
    /\ fetchCount < MaxFetches
    /\ loading' = TRUE
    /\ error' = ""
    /\ fetchCount' = fetchCount + 1
    /\ inflight' = inflight \cup
            { Request(fetchCount + 1, "search", 1, FALSE, name, race) }
    /\ UNCHANGED <<characters, currentPage, totalPages, hasMore, lastSettled>>

\* onMount: the initial load
Mount ==
    /\ ~mounted
    /\ ~dMounted
    /\ mounted' = TRUE
    /\ StartLoad(1, TRUE)
    /\ lastEvent' = "mount"
    /\ UNCHANGED <<detailVars, svcVars>>

\* variant: the button repeats the call that settled last
Retry_repeatsLastCall ==
    /\ mounted
    /\ error # ""
    /\ StartLoad(lastSettled.page, lastSettled.reset)
    /\ lastEvent' = "retry"
    /\ UNCHANGED <<mounted, detailVars, svcVars>>

\* the Retry button, rendered while an error is shown
Retry ==
    /\ mounted
    /\ error # ""
    /\ StartLoad(1, TRUE)
    /\ lastEvent' = "retry"
    /\ UNCHANGED <<mounted, detailVars, svcVars>>

\* the search form's submit
Search ==
    /\ mounted
    /\ \E searchTerm \in SearchTerms, selectedRace \in SelectedRaces :
          StartSearch(searchTerm, handleSearchRace(selectedRace))
    /\ lastEvent' = "search"
    /\ UNCHANGED <<mounted, detailVars, svcVars>>

\* variant: the page asked for is the current one
LoadMore_samePage ==
    /\ mounted
    /\ IF ~loading /\ hasMore
       THEN StartLoad(currentPage, FALSE)
       ELSE UNCHANGED <<viewVars, inflight, fetchCount, lastSettled>>
    /\ lastEvent' = "loadMore"
    /\ UNCHANGED <<mounted, detailVars, svcVars>>

\* variant: the guard does not look at the loading flag
LoadMore_ignoresLoading ==
    /\ mounted
    /\ IF hasMore
       THEN StartLoad(currentPage + 1, FALSE)
       ELSE UNCHANGED <<viewVars, inflight, fetchCount, lastSettled>>
    /\ lastEvent' = "loadMore"
    /\ UNCHANGED <<mounted, detailVars, svcVars>>

\* loadMore()
LoadMore ==
    /\ mounted
    /\ IF ~loading /\ hasMore
       THEN StartLoad(currentPage + 1, FALSE)
       ELSE UNCHANGED <<viewVars, inflight, fetchCount, lastSettled>>
    /\ lastEvent' = "loadMore"
    /\ UNCHANGED <<mounted, detailVars, svcVars>>

\* what the network answered: a failure, or the kind of body that parsed
ServedBy(net) ==
    IF net.kind # "ok" THEN "failed"
    ELSE IF net.body.kind = "object" THEN "envelope"
    ELSE net.body.kind

\* the record of the settled call r
Settled(r, done, net) ==
    [r EXCEPT !.done = done,
              !.served = ServedBy(net),
              !.pending = { q.rid : q \in inflight \ {r} },
              !.same = /\ lastSettled.op = r.op
                       /\ lastSettled.page = r.page
                       /\ lastSettled.reset = r.reset
                       /\ lastSettled.name = r.name
                       /\ lastSettled.race = r.race
                       /\ lastSettled.done = "try"
                       /\ done = "try"
                       /\ lastSettled.served = ServedBy(net),
              !.paging = IF /\ r.op = "load"
                            /\ r.reset => r.rid = 1
                            /\ ServedBy(net) \in {"envelope", "failed"}
                            /\ \/ lastSettled.op = "none"
                               \/ lastSettled.paging = ServedBy(net)
                            /\ \A q \in inflight : q.op = "load"
                         THEN ServedBy(net) ELSE "mixed"]

\* data.meta?.totalPages || 1
MetaTotalPagesOr1(data) ==
    IF data.meta.present /\ data.meta.totalPages # 0
    THEN data.meta.totalPages ELSE 1

\* variant: the response items are appended whatever the reset flag says
SettleLoad_alwaysAppends(r, net, typeErrorMsg) ==
    LET res == getAllCharacters(r.page, ListPageSize, net)
        items == IF res.threw THEN res ELSE ItemsOrData(res.value, typeErrorMsg)
    IN  /\ IF items.threw
           THEN /\ error' = handleApiError(items.message)
                /\ lastSettled' = Settled(r, "catch", net)
                /\ UNCHANGED <<characters, totalPages, hasMore, currentPage>>
           ELSE /\ characters' = characters \o items.value
                /\ totalPages' = MetaTotalPagesOr1(res.value)
                /\ hasMore' = (r.page < MetaTotalPagesOr1(res.value))
                /\ currentPage' = r.page
                /\ lastSettled' = Settled(r, "try", net)
                /\ UNCHANGED error
        /\ loading' = FALSE

\* variant: no finally block, the catch path leaves the loading flag set
SettleLoad_noFinally(r, net, typeErrorMsg) ==
    LET res == getAllCharacters(r.page, ListPageSize, net)
        items == IF res.threw THEN res ELSE ItemsOrData(res.value, typeErrorMsg)
    IN  IF items.threw
        THEN /\ error' = handleApiError(items.message)
             /\ lastSettled' = Settled(r, "catch", net)
             /\ UNCHANGED <<characters, totalPages, hasMore, currentPage, loading>>
        ELSE /\ characters' = IF r.reset THEN items.value
                              ELSE characters \o items.value
             /\ totalPages' = MetaTotalPagesOr1(res.value)
             /\ hasMore' = (r.page < MetaTotalPagesOr1(res.value))
             /\ currentPage' = r.page
             /\ lastSettled' = Settled(r, "try", net)
             /\ loading' = FALSE
             /\ UNCHANGED error

\* variant: appended items whose id is already displayed are dropped
SettleLoad_dedup(r, net, typeErrorMsg) ==
    LET res == getAllCharacters(r.page, ListPageSize, net)
        items == IF res.threw THEN res ELSE ItemsOrData(res.value, typeErrorMsg)
        shown == { characters[i].id : i \in DOMAIN characters }
    IN  /\ IF items.threw
           THEN /\ error' = handleApiError(items.message)
                /\ lastSettled' = Settled(r, "catch", net)
                /\ UNCHANGED <<characters, totalPages, hasMore, currentPage>>
           ELSE /\ characters' =
                     IF r.reset THEN items.value
                     ELSE characters \o
                          SelectSeq(items.value, LAMBDA c : c.id \notin shown)
                /\ totalPages' = MetaTotalPagesOr1(res.value)
                /\ hasMore' = (r.page < MetaTotalPagesOr1(res.value))
                /\ currentPage' = r.page
                /\ lastSettled' = Settled(r, "try", net)
                /\ UNCHANGED error
        /\ loading' = FALSE

\* variant: hasMore is computed before currentPage is assigned
SettleLoad_hasMoreFromOldPage(r, net, typeErrorMsg) ==
    LET res == getAllCharacters(r.page, ListPageSize, net)
        items == IF res.threw THEN res ELSE ItemsOrData(res.value, typeErrorMsg)
    IN  /\ IF items.threw
           THEN /\ error' = handleApiError(items.message)
                /\ lastSettled' = Settled(r, "catch", net)
                /\ UNCHANGED <<characters, totalPages, hasMore, currentPage>>
           ELSE /\ characters' = IF r.reset THEN items.value
                                 ELSE characters \o items.value
                /\ totalPages' = MetaTotalPagesOr1(res.value)
                /\ hasMore' = (currentPage < MetaTotalPagesOr1(res.value))
                /\ currentPage' = r.page
                /\ lastSettled' = Settled(r, "try", net)
                /\ UNCHANGED error
        /\ loading' = FALSE

\* variant: the catch block empties the display list
SettleLoad_catchClearsList(r, net, typeErrorMsg) ==
    LET res == getAllCharacters(r.page, ListPageSize, net)
        items == IF res.threw THEN res ELSE ItemsOrData(res.value, typeErrorMsg)
    IN  /\ IF items.threw
           THEN /\ error' = handleApiError(items.message)
                /\ characters' = <<>>
                /\ lastSettled' = Settled(r, "catch", net)
                /\ UNCHANGED <<totalPages, hasMore, currentPage>>
           ELSE /\ characters' = IF r.reset THEN items.value
                                 ELSE characters \o items.value
                /\ totalPages' = MetaTotalPagesOr1(res.value)
                /\ hasMore' = (r.page < MetaTotalPagesOr1(res.value))
                /\ currentPage' = r.page
                /\ lastSettled' = Settled(r, "try", net)
                /\ UNCHANGED error
        /\ loading' = FALSE

\* loadCharacters after its await: the service call r has settled
SettleLoad(r, net, typeErrorMsg) ==
    LET res == getAllCharacters(r.page, ListPageSize, net)
        items == IF res.threw THEN res ELSE ItemsOrData(res.value, typeErrorMsg)
    IN  /\ IF items.threw
           THEN /\ error' = handleApiError(items.message)
                /\ lastSettled' = Settled(r, "catch", net)
                /\ UNCHANGED <<characters, totalPages, hasMore, currentPage>>
           ELSE /\ characters' = IF r.reset THEN items.value
                                 ELSE characters \o items.value
                /\ totalPages' = MetaTotalPagesOr1(res.value)
                /\ hasMore' = (r.page < MetaTotalPagesOr1(res.value))
                /\ currentPage' = r.page
                /\ lastSettled' = Settled(r, "try", net)
                /\ UNCHANGED error
        /\ loading' = FALSE

\* variant: the flag is derived from the page counters as after a load
SettleSearch_derivesHasMore(r, net, typeErrorMsg) ==
    LET res == searchCharacters(r.name, r.race, 1, SearchPageSize, net)
        items == IF res.threw THEN res ELSE ItemsOrData(res.value, typeErrorMsg)
    IN  /\ IF items.threw
           THEN /\ error' = handleApiError(items.message)
                /\ lastSettled' = Settled(r, "catch", net)
                /\ UNCHANGED <<characters, hasMore>>
           ELSE /\ characters' = items.value
                /\ hasMore' = (currentPage < totalPages)
                /\ lastSettled' = Settled(r, "try", net)
                /\ UNCHANGED error
        /\ loading' = FALSE
        /\ UNCHANGED <<totalPages, currentPage>>

\* searchCharacters after its await
SettleSearch(r, net, typeErrorMsg) ==
    LET res == searchCharacters(r.name, r.race, 1, SearchPageSize, net)
        items == IF res.threw THEN res ELSE ItemsOrData(res.value, typeErrorMsg)
    IN  /\ IF items.threw
           THEN /\ error' = handleApiError(items.message)
                /\ lastSettled' = Settled(r, "catch", net)
                /\ UNCHANGED <<characters, hasMore>>
           ELSE /\ characters' = items.value
                /\ hasMore' = FALSE
                /\ lastSettled' = Settled(r, "try", net)
                /\ UNCHANGED error
        /\ loading' = FALSE
        /\ UNCHANGED <<totalPages, currentPage>>

\* the texts a TypeError of the continuation can carry: only a load that is
\* handed null raises one
TypeErrorMessages(r, net) ==
    IF r.op = "load" /\ net.kind = "ok" /\ net.body.kind = "null"
    THEN NullReadMessages ELSE { MsgNullReadV8 }

\* a response (or the failure) of an outstanding call arrives
Settle ==
    \E r \in inflight :
      \E net \in ListOutcomes(r.page, IF r.op = "load" THEN ListPageSize
                                      ELSE SearchPageSize) :
       \E typeErrorMsg \in TypeErrorMessages(r, net) :
        /\ IF r.op = "load"
           THEN SettleLoad(r, net, typeErrorMsg)
           ELSE SettleSearch(r, net, typeErrorMsg)
        /\ inflight' = inflight \ {r}
        /\ lastEvent' = "settle"
        /\ UNCHANGED <<mounted, fetchCount, detailVars, svcVars>>

(***************************************************************************)
(* Detail screen, src/unnamed/part_000                                     *)
(***************************************************************************)
\* the identifiers the route hands to the screen ($page.params.id)
RouteIds ==
    { StrId(<<"1">>), StrId(<<"2">>), StrId(<<"6">>), StrId(<<"7">>),
      StrId(<<"9">>), StrId(<<"1","0">>), StrId(<<"9","9","9">>),
      StrId(<<"a">>) }

\* onMount: loadCharacter(id) up to its await, when the route has an id
DetailMount ==
    /\ ~dMounted
    /\ ~mounted
    /\ dMounted' = TRUE
    /\ \E id \in RouteIds :
          IF id.s # <<>>
          THEN /\ dLoading' = TRUE
               /\ dError' = ""
               /\ dPending' = {id}
          ELSE UNCHANGED <<dLoading, dError, dPending>>
    /\ UNCHANGED <<dCharacter, dDone, listVars, svcVars>>

\* variant: no finally block, the catch path leaves the loading flag set
DetailSettle_noFinally ==
    /\ \E id \in dPending :
        \E net \in CharacterOutcomes(id) :
          LET res == getCharacterById(id, net)
          IN  /\ IF res.threw
                 THEN /\ dError' = handleApiError(res.message)
                      /\ dDone' = "catch"
                      /\ UNCHANGED <<dCharacter, dLoading>>
                 ELSE /\ dCharacter' = res.value
                      /\ dDone' = "try"
                      /\ dLoading' = FALSE
                      /\ UNCHANGED dError
              /\ dPending' = dPending \ {id}
    /\ UNCHANGED <<dMounted, listVars, svcVars>>

\* variant: the catch block resets the stored record
DetailSettle_catchClearsRecord ==
    /\ \E id \in dPending :
        \E net \in CharacterOutcomes(id) :
          LET res == getCharacterById(id, net)
          IN  /\ IF res.threw
                 THEN /\ dError' = handleApiError(res.message)
                      /\ dDone' = "catch"
                      /\ dCharacter' = NoCharacter
                 ELSE /\ dCharacter' = res.value
                      /\ dDone' = "try"
                      /\ UNCHANGED dError
              /\ dLoading' = FALSE
              /\ dPending' = dPending \ {id}
    /\ UNCHANGED <<dMounted, listVars, svcVars>>

\* loadCharacter after its await
DetailSettle ==
    /\ \E id \in dPending :
        \E net \in CharacterOutcomes(id) :
          LET res == getCharacterById(id, net)
          IN  /\ IF res.threw
                 THEN /\ dError' = handleApiError(res.message)
                      /\ dDone' = "catch"
                      /\ UNCHANGED dCharacter
                 ELSE /\ dCharacter' = res.value
                      /\ dDone' = "try"
                      /\ UNCHANGED dError
              /\ dLoading' = FALSE
              /\ dPending' = dPending \ {id}
    /\ UNCHANGED <<dMounted, listVars, svcVars>>

Next ==
    \/ Mount
    \/ Retry
    \/ Search
    \/ LoadMore
    \/ Settle
    \/ DetailMount
    \/ DetailSettle

Spec == Init /\ [][Next]_vars

\* every fetch that was issued is answered or fails: the awaited promise of
\* an outstanding call settles and its continuation runs
\* (one behaviour starts fewer service calls here than under Spec)
Capped == fetchCount' <= MaxFairFetches

FairNext ==
    \/ Mount /\ Capped
    \/ Retry /\ Capped
    \/ Search /\ Capped
    \/ LoadMore /\ Capped
    \/ Settle
    \/ DetailMount
    \/ DetailSettle

FairSpec ==
    Init /\ [][FairNext]_vars /\ WF_vars(Settle) /\ WF_vars(DetailSettle)

(***************************************************************************)
(* The detail screen with loadCharacter(id) as an entry point that may be  *)
(* called again once the previous call has settled.                        *)
(***************************************************************************)
DetailLoad ==
    /\ dMounted
    /\ dPending = {}
    /\ \E id \in RouteIds :
          /\ dLoading' = TRUE
          /\ dError' = ""
          /\ dPending' = {id}
    /\ UNCHANGED <<dCharacter, dDone, dMounted, listVars, svcVars>>

DetailNext ==
    \/ DetailMount
    \/ DetailLoad
    \/ DetailSettle

DetailSpec == Init /\ [][DetailNext]_vars

(***************************************************************************)
(* The list screen with load(1, true) as an entry point the presentation   *)
(* layer may call at any time, calls one after the other or overlapping.   *)
(***************************************************************************)
Reload ==
    /\ mounted
    /\ StartLoad(1, TRUE)
    /\ lastEvent' = "reload"
    /\ UNCHANGED <<mounted, detailVars, svcVars>>

ReloadNext ==
    \/ Mount
    \/ Reload
    \/ Settle

ReloadSpec == Init /\ [][ReloadNext]_vars

(***************************************************************************)
(* Properties of the data access service (SvcSpec)                         *)
(***************************************************************************)
WellFormedEnvelope(v) == v.kind = "object" /\ v.meta.present

FailedCall(op) == svcCall.op = op /\ svcNet.kind \notin {"none", "ok"}

\* C1: for every page >= 1, pageSize >= 1 and every outcome of the network
\* call (transport failure, non-success status, unparsable body, or a body
\* that parses), listCharacters does not raise and returns a well-formed
\* envelope: items plus the five metadata fields.
C1_ListAlwaysWellFormed ==
    svcCall.op = "getAllCharacters" =>
        ~svcRet.threw /\ WellFormedEnvelope(svcRet.value)

\* C3: when the network call fails, the envelope of listCharacters(page,
\* pageSize) has itemCount = length of items, totalItems = length of the
\* static dataset and totalPages = ceil(totalItems / pageSize), i.e.
\* totalPages is the least number of pages of pageSize that hold totalItems.
C3_FallbackMetaConsistent ==
    FailedCall("getAllCharacters") =>
        LET m == svcRet.value.meta
        IN  /\ ~svcRet.threw
            /\ m.present
            /\ m.itemCount = Len(svcRet.value.items)
            /\ m.totalItems = Len(mockCharacters)
            /\ m.totalPages * svcCall.limit >= m.totalItems
            /\ (m.totalPages - 1) * svcCall.limit < m.totalItems

C3_Witness ==
    /\ FailedCall("getAllCharacters")
    /\ svcCall.page = 2 /\ svcCall.limit = 4
    /\ svcRet.value.meta.itemCount = 2
    /\ svcRet.value.meta.totalPages = 2

\* C4: when the network call fails, the items of listCharacters(page,
\* pageSize) are the static records at positions (page-1)*pageSize up to but
\* excluding page*pageSize, in dataset order, cut at the dataset's end; with
\* the 6-record dataset and pageSize 12, page 1 has all 6 records and
\* totalPages 1, page 2 has none.
C4_FallbackWindow ==
    FailedCall("getAllCharacters") =>
        LET first == (svcCall.page - 1) * svcCall.limit
            last == svcCall.page * svcCall.limit
            items == svcRet.value.items
            inWindow == { i \in 1..Len(mockCharacters) : first < i /\ i <= last }
        IN  /\ Len(items) = Cardinality(inWindow)
            /\ \A k \in 1..Len(items) : items[k] = mockCharacters[first + k]
            /\ (svcCall.limit = 12 /\ svcCall.page = 1) =>
                    (items = mockCharacters /\ Len(items) = 6
                     /\ svcRet.value.meta.totalPages = 1)
            /\ (svcCall.limit = 12 /\ svcCall.page = 2) => Len(items) = 0

C4_Witness ==
    /\ FailedCall("getAllCharacters")
    /\ svcCall.page = 2 /\ svcCall.limit = 12
    /\ svcRet.value.items = <<>>

\* C5: every envelope synthesized on the fallback path (listCharacters and
\* searchCharacters, any page >= 1 and pageSize >= 1) has
\* 1 <= currentPage <= totalPages when totalItems > 0.
C5_FallbackCurrentPageInRange ==
    (FailedCall("getAllCharacters") \/ FailedCall("searchCharacters")) =>
        LET m == svcRet.value.meta
        IN  m.totalItems > 0 => (1 <= m.currentPage /\ m.currentPage <= m.totalPages)

\* C6: every envelope returned by searchCharacters has itemCount = length of
\* items, on the network-success path (given a remote envelope that has it)
\* as on the fallback path, for any name and category filter.
C6_SearchItemCountMatches ==
    ( /\ svcCall.op = "searchCharacters"
      /\ svcNet.kind = "ok" =>
            ( /\ WellFormedEnvelope(svcNet.body)
              /\ svcNet.body.meta.itemCount = Len(svcNet.body.items) ) )
    => ( /\ ~svcRet.threw
         /\ svcRet.value.meta.present
         /\ svcRet.value.meta.itemCount = Len(svcRet.value.items) )

\* an identifier that is an integer or the decimal text of one
Coercible(id) ==
    \/ id.t = "num"
    \/ id.s # <<>> /\ \A i \in 1..Len(id.s) : id.s[i] \in Digits

RECURSIVE DecimalValue(_)
DecimalValue(s) ==
    IF s = <<>> THEN 0
    ELSE DecimalValue(SubSeq(s, 1, Len(s) - 1)) * 10 + DigitVal(s[Len(s)])

NumericValue(id) == IF id.t = "num" THEN id.n ELSE DecimalValue(id.s)

\* C7: when the network call fails, getCharacter(id) returns the static
\* record whose identifier equals the number id stands for (id an integer or
\* the decimal text of one) if there is one, and otherwise fails with Not
\* Found: "1" gives the record with id 1, "999" fails with Not Found.
C7_GetCharacterFallbackLookup ==
    (FailedCall("getCharacterById") /\ Coercible(svcCall.id)) =>
        LET hits == { i \in 1..Len(mockCharacters) :
                        mockCharacters[i].id = NumericValue(svcCall.id) }
        IN  IF hits # {}
            THEN ~svcRet.threw /\ \E i \in hits : svcRet.value = mockCharacters[i]
            ELSE svcRet.threw /\ svcRet.message = MsgNotFound

C7_Witness ==
    /\ FailedCall("getCharacterById")
    /\ svcCall.id = StrId(<<"1">>)
    /\ ~svcRet.threw
    /\ svcRet.value.id = 1
    /\ svcRet.value.name = <<"G","o","k","u">>

\* term occurs in field at some offset, letters compared without case
SameLetter(a, b) == toLowerCase(<<a>>) = toLowerCase(<<b>>)
ContainsIgnoringCase(field, term) ==
    \E off \in 0..(Len(field) - Len(term)) :
        \A k \in 1..Len(term) : SameLetter(field[off + k], term[k])
MatchesBoth(character, name, race) ==
    /\ ContainsIgnoringCase(character.name, name)
    /\ ContainsIgnoringCase(character.race, race)
\* the elements of arr that match both terms, in the order of arr
Matching(arr, name, race) ==
    LET Keep(character) == MatchesBoth(character, name, race)
    IN  SelectSeq(arr, Keep)

\* C8: when the network call fails, searchCharacters(name, category, page,
\* pageSize) returns, in dataset order, exactly the records of the whole
\* static dataset whose name contains name and whose category contains
\* category (case-insensitive, an empty term matches everything), whatever
\* page and pageSize are, with totalItems = itemCount = number of matches and
\* totalPages = 1.
C8_SearchFallbackExact ==
    FailedCall("searchCharacters") =>
        LET v == svcRet.value
        IN  /\ ~svcRet.threw
            /\ v.items = Matching(mockCharacters, svcCall.name, svcCall.race)
            /\ v.meta.present
            /\ v.meta.totalItems = Len(v.items)
            /\ v.meta.itemCount = Len(v.items)
            /\ v.meta.totalPages = 1

C8_Witness ==
    /\ FailedCall("searchCharacters")
    /\ svcCall.name = <<"G","O">> /\ svcCall.race = <<"s","a","i","y","a","n">>
    /\ svcCall.page = 3 /\ svcCall.limit = 1
    /\ Len(svcRet.value.items) = 2
    /\ svcRet.value.items[1].id = 1 /\ svcRet.value.items[2].id = 4

\* C9: on the network-success path searchCharacters returns exactly the
\* items of the one fetched page (the requested window of the remote
\* collection) that match both filters, in the page's order; a matching
\* record on another remote page is never returned, and the call issues the
\* one request for that page and no other.
C9_SearchSuccessOnePage ==
    (svcCall.op = "searchCharacters" /\ svcNet.kind = "ok"
        /\ svcNet.body.kind # "null") =>
        LET first == (svcCall.page - 1) * svcCall.limit
            last == svcCall.page * svcCall.limit
        IN  /\ ~svcRet.threw
            /\ svcRet.value.items =
                  Matching(svcNet.body.items, svcCall.name, svcCall.race)
            /\ \A i \in 1..RemoteSize :
                  (i <= first \/ i > last) =>
                      \A k \in 1..Len(svcRet.value.items) :
                          svcRet.value.items[k] # remoteCharacters[i]
            /\ svcReqs = << [path |-> "/characters", page |-> svcCall.page,
                             limit |-> svcCall.limit] >>

C9_Witness ==
    /\ svcCall.op = "searchCharacters" /\ svcNet.kind = "ok"
    /\ svcNet.body.kind = "object"
    /\ svcCall.name = <<"v","e","g","e","t","a">> /\ svcCall.race = <<>>
    /\ svcCall.page = 1 /\ svcCall.limit = 1
    /\ svcRet.value.items = <<>>
    /\ \E i \in 1..RemoteSize :
          MatchesBoth(remoteCharacters[i], svcCall.name, svcCall.race)

(***************************************************************************)
(* Properties of the list screen (Spec)                                    *)
(***************************************************************************)
\* C2: after any sequence of initial load, retry, loadMore and search, and
\* for any network outcome of each request, the error message is empty once
\* the operation has completed: failures of listing and search are never
\* shown to the user.
C2_ListErrorNeverShown ==
    (mounted /\ lastSettled.op # "none" /\ ~loading) => error = ""

\* C10: whenever a search completes on the list screen the more-available
\* flag is false, whatever the number of results and whatever the flag was.
C10_SearchClearsHasMore ==
    lastSettled.op = "search" => ~hasMore

C10_Witness ==
    /\ lastSettled.op = "search"
    /\ lastSettled.done = "try"
    /\ characters # <<>>
    /\ currentPage < totalPages
    /\ ~hasMore

\* the network outcome the settled call r records as served
NetServed(r) ==
    LET size == IF r.op = "load" THEN ListPageSize ELSE SearchPageSize
    IN  CASE r.served = "envelope" -> Net("ok", 200, RemoteEnvelope(r.page, size))
          [] r.served = "array" ->
                Net("ok", 200, ArrayBody(RemoteEnvelope(r.page, size).items))
          [] r.served = "null" -> Net("ok", 200, NullBody)
          [] OTHER -> Net("transport", 0, NullBody)

\* what the service handed to the continuation of the settled call r
ResponseData(r) ==
    IF r.op = "load"
    THEN getAllCharacters(r.page, ListPageSize, NetServed(r)).value
    ELSE searchCharacters(r.name, r.race, 1, SearchPageSize, NetServed(r)).value

ResponseItems(r) == ResponseData(r).items

\* a step in which a call of the list screen settles
ListSettles == lastSettled' # lastSettled

\* C11: loadMore invoked while loading is true or more-available is false
\* issues no fetch and leaves display list, loading, error, currentPage,
\* totalPages and more-available unchanged; in every other state it invokes
\* load(currentPage + 1, replace = false).
C11_LoadMoreGuard ==
    [][ lastEvent' = "loadMore" =>
          IF loading \/ ~hasMore
          THEN UNCHANGED <<characters, loading, error, currentPage, totalPages,
                           hasMore, inflight, fetchCount>>
          ELSE /\ fetchCount' = fetchCount + 1
               /\ inflight' = inflight \cup
                    { Request(fetchCount + 1, "load", currentPage + 1, FALSE,
                              <<>>, <<>>) }
               /\ loading' = TRUE
               /\ error' = ""
               /\ UNCHANGED <<characters, currentPage, totalPages, hasMore>>
      ]_vars

C11_Witness ==
    /\ lastEvent = "loadMore"
    /\ ~loading /\ ~hasMore
    /\ characters # <<>>
    /\ inflight = {}
    /\ fetchCount = 1

\* C12: a load that fails leaves the displayed list unchanged and sets a
\* non-empty error message; a later successful load(page, replace = true)
\* sets the error message back to empty and makes the display list equal to
\* that response's items.
C12_FailedLoadKeepsList ==
    [][ (ListSettles /\ lastSettled'.op = "load") =>
          /\ lastSettled'.done = "catch" =>
                (characters' = characters /\ error' # "")
          /\ (lastSettled'.done = "try" /\ lastSettled'.reset) =>
                (error' = "" /\ characters' = ResponseItems(lastSettled'))
      ]_vars

C12_Witness ==
    /\ lastSettled.op = "load" /\ lastSettled.reset
    /\ lastSettled.done = "try"
    /\ lastSettled.rid = 3
    /\ lastEvent = "settle"
    /\ error = ""
    /\ Len(characters) = 12

\* C13: load(1, replace = true) called twice in succession against the same
\* backing data leaves the same display list after the second call as after
\* the first.
C13_ReloadIdempotent ==
    [][ ( /\ ListSettles
          /\ lastSettled'.op = "load" /\ lastSettled'.page = 1
          /\ lastSettled'.reset
          /\ lastSettled'.done = "try"
          /\ lastSettled'.same ) =>
          characters' = characters
      ]_vars

C13_Witness ==
    /\ lastSettled.op = "load" /\ lastSettled.page = 1 /\ lastSettled.reset
    /\ lastSettled.done = "try"
    /\ lastSettled.same
    /\ lastSettled.rid = 2
    /\ characters # <<>>

\* a step in which the list screen starts a service call
ListStarts == fetchCount' = fetchCount + 1

\* a step in which the detail screen starts its service call
DetailStarts == dPending = {} /\ dPending' # {}

\* a step in which the service call of the detail screen settles
DetailSettles == dPending # {} /\ dPending' = {}

\* C14: every call of load or search on the list screen and of load on the
\* detail screen sets loading to true when it starts and sets loading to
\* false as its last step once the attempt has settled, whether it succeeded
\* or failed.
C14_LoadingBrackets ==
    [][ /\ ListStarts => loading'
        /\ ListSettles => ~loading'
        /\ DetailStarts => dLoading'
        /\ DetailSettles => ~dLoading'
      ]_vars

C14_Witness ==
    /\ lastSettled.op = "load"
    /\ lastSettled.done = "catch"
    /\ lastEvent = "settle"
    /\ inflight = {}
    /\ ~loading
    /\ error # ""

\* the call the list screen starts in this step
Started == CHOOSE q \in inflight' : q.rid = fetchCount + 1

Occurs(t, m) ==
    \E off \in 0 .. (Len(m) - Len(t)) :
        \A k \in 1 .. Len(t) : m[off + k] = t[k]

NetworkErrorText == "Network error. Please check your internet connection."
NotFoundText == "Character not found."
ServerErrorText == "Server error. Please try again later."
UnexpectedErrorText == "An unexpected error occurred. Please try again."

\* C16: handleApiError answers every failure with exactly one of four
\* messages: the network error message for a connectivity failure,
\* otherwise the not found message when the text contains "404", otherwise
\* the server error message when it contains "500", otherwise the generic
\* message; the message is never empty and no state is modified.
C16_HandleApiErrorTotal ==
    svcCall.op = "handleApiError" =>
        LET m == svcCall.message
            out == svcRet.value
        IN  /\ ~svcRet.threw
            /\ out \in { NetworkErrorText, NotFoundText, ServerErrorText,
                         UnexpectedErrorText }
            /\ out # ""
            /\ out = ( IF Occurs(FailedToFetch, m) THEN NetworkErrorText
                       ELSE IF Occurs(<<"4","0","4">>, m) THEN NotFoundText
                       ELSE IF Occurs(<<"5","0","0">>, m) THEN ServerErrorText
                       ELSE UnexpectedErrorText )
            /\ error = "" /\ dError = "" /\ characters = <<>>
            /\ ~mounted /\ ~dMounted

C16_Witness ==
    /\ svcCall.op = "handleApiError"
    /\ Occurs(FailedToFetch, svcCall.message)
    /\ Occurs(<<"4","0","4">>, svcCall.message)
    /\ svcRet.value = NetworkErrorText

\* a step in which a load of the list screen settles through its try block
LoadSucceeds ==
    ListSettles /\ lastSettled'.op = "load" /\ lastSettled'.done = "try"

\* C17: after a successful load, with replace = true the display list is
\* exactly the response's items; with replace = false it is the previous
\* display list followed by the response's items, in arrival order and with
\* no item dropped for having an identifier already displayed.
C17_ReplaceOrAppend ==
    [][ LoadSucceeds =>
          characters' = IF lastSettled'.reset
                        THEN ResponseItems(lastSettled')
                        ELSE characters \o ResponseItems(lastSettled')
      ]_vars

C17_Witness ==
    /\ lastSettled.op = "load" /\ ~lastSettled.reset
    /\ lastSettled.done = "try"
    /\ lastEvent = "settle"
    /\ \E i, j \in DOMAIN characters :
          i < j /\ characters[i].id = characters[j].id

C19_LoadMoreNeverOverlaps ==
    [][ (lastEvent' = "loadMore" /\ ListStarts) => inflight = {} ]_vars

\* one of the two calls is a search and the other is load(1, replace = true)
SearchAndReload(a, b) ==
    \/ a.op = "search" /\ b.op = "load" /\ b.page = 1 /\ b.reset
    \/ b.op = "search" /\ a.op = "load" /\ a.page = 1 /\ a.reset

\* C20: when a search and a load(1, replace = true) are outstanding
\* together, both responses are applied to the view state, and once both have
\* settled the display list is the items of the response that arrived last,
\* whichever call was made first.
C20_LastArrivalWins ==
    [][ ( /\ ListSettles
          /\ lastSettled'.rid \in lastSettled.pending
          /\ SearchAndReload(lastSettled, lastSettled') ) =>
          /\ lastSettled.done = "try"
          /\ lastSettled'.done = "try"
          /\ characters' = ResponseItems(lastSettled')
      ]_vars

\* a step in which loadCharacter starts its service call
DetailLoadStarts == dPending = {} /\ dPending' # {}

\* a step in which the one outstanding call of loadCharacter settles
DetailLoadSettles == dPending # {} /\ dPending' = {}

\* C21: on the detail screen load(id) sets loading to true and error to
\* empty; on success it stores the returned record and error is still empty;
\* on failure it sets a non-empty error and leaves the stored record as it
\* was, so that a record loaded earlier stays on the screen.
C21_DetailLoad ==
    [][ /\ DetailLoadStarts =>
            (dLoading' /\ dError' = "" /\ dCharacter' = dCharacter)
        /\ (DetailLoadSettles /\ dDone' = "try") =>
            /\ dError' = ""
            /\ dCharacter' # NoCharacter
            /\ \E id \in dPending :
                  /\ dCharacter'.id = NumericValue(id)
                  /\ \/ \E i \in 1..RemoteSize : dCharacter' = remoteCharacters[i]
                     \/ \E i \in 1..Len(mockCharacters) :
                           dCharacter' = mockCharacters[i]
        /\ (DetailLoadSettles /\ dDone' = "catch") =>
            (dError' # "" /\ dCharacter' = dCharacter)
      ]_vars

C21_Witness ==
    /\ dDone = "catch"
    /\ dPending = {}
    /\ ~dLoading
    /\ dError # ""
    /\ dCharacter # NoCharacter

\* from a settled list screen a search can start a call, and so can retry
\* when an error is shown and loadMore when more is available
ReentryPossible ==
    (mounted /\ ~loading /\ fetchCount < MaxFetches) =>
        /\ ENABLED (Search /\ loading')
        /\ error # "" => ENABLED (Retry /\ loading')
        /\ hasMore => ENABLED (LoadMore /\ loading')

\* C22: provided every issued fetch eventually settles, neither screen
\* stays in Loading forever: once the screen is active, a state with
\* loading = false is always reached again after loading became true, and
\* from such a state a user action (retry, search, load more) can enter
\* Loading again.
C22_LoadingEnds ==
    /\ (mounted /\ loading) ~> ~loading
    /\ (dMounted /\ dLoading) ~> ~dLoading
    /\ []ReentryPossible

C22_Witness ==
    /\ lastSettled.op = "load" /\ lastSettled.done = "catch"
    /\ lastEvent = "retry"
    /\ loading
    /\ fetchCount = 2

\* C23: when getCharacter fails with Not Found (the network call failed and
\* the static dataset holds no matching record), the detail screen shows the
\* not-found message, which differs from the network error message and from
\* the unexpected error message.
C23_NotFoundMessage ==
    dDone = "catch" =>
        /\ dError = NotFoundText
        /\ dError # NetworkErrorText
        /\ dError # UnexpectedErrorText

\* C24: on the list screen loading is true in every state in which a fetch
\* started by load or search is still outstanding.
C24_LoadingWhileOutstanding == inflight # {} => loading

\* C25: the display list of the list screen never holds two records with the
\* same identifier.
C25_NoDuplicateIds ==
    \A i, j \in DOMAIN characters :
        i # j => characters[i].id # characters[j].id

\* C26: in every state of the list screen 1 <= currentPage <= totalPages.
C26_CurrentPageInRange == 1 <= currentPage /\ currentPage <= totalPages

\* the collection that answered every call of a run of plain paging
Backing ==
    IF lastSettled.paging = "envelope"
    THEN [i \in 1..RemoteSize |-> remoteCharacters[i]]
    ELSE mockCharacters

\* C27: in a run made of the initial load followed by loadMore actions only,
\* every request answered from one unchanging paginated collection, each
\* state with loading false shows pages 1 to currentPage of the collection,
\* in order, none skipped or repeated; once more-available is false the
\* display list is the whole collection.
C27_PagesInOrder ==
    (~loading /\ lastSettled.paging \in {"envelope", "failed"}) =>
        LET upto == IF currentPage * ListPageSize < Len(Backing)
                    THEN currentPage * ListPageSize ELSE Len(Backing)
        IN  /\ inflight = {}
            /\ characters = SubSeq(Backing, 1, upto)
            /\ ~hasMore => characters = Backing

C27_Witness ==
    /\ lastSettled.paging = "envelope"
    /\ ~loading /\ ~hasMore
    /\ currentPage = 2
    /\ Len(characters) = RemoteSize
    /\ lastEvent = "loadMore"

====
